---- MODULE Spec2Model ----
(***************************************************************************)
(* its_easy.tour.pdf: binding a validated booking document to the print    *)
(* positions of the booking request paper.                                 *)
(*                                                                         *)
(* Strings of TLA+ cannot hold the Japanese keys of the source, so every   *)
(* key and enumerated value is written romanised:                          *)
(*   依頼日 iraibi                  利用代表者 riyou_daihyousha            *)
(*   利用代表者名 riyou_daihyousha_mei   フリガナ furigana                 *)
(*   性別 seibetsu (男 otoko, 女 onna)   勤務先名 kinmusaki_mei            *)
(*   代表利用者の方の保険証 hokenshou (記号 kigou, 番号 bangou)            *)
(*   連絡先電話番号 renrakusaki_denwa_bangou (番号 bangou, 種別 shubetsu)  *)
(*   携帯 keitai, 自宅 jitaku, 勤務先 kinmusaki                            *)
(*   請求書・旅行書類送付先 soufusaki                                      *)
(*   請求書送付先住所 seikyuusho_soufusaki_juusho                          *)
(*   旅行書類等送付先住所 ryokoushorui_soufusaki_juusho                    *)
(*   郵便番号 yuubin_bangou         住所 juusho                            *)
(*   利用希望コース riyou_kibou_course   旅行期間 ryokou_kikan             *)
(*   開始日 kaishibi                終了日 shuuryoubi                      *)
(*   ツアーコード tour_code         ツアー名 tour_mei                      *)
(*   パンフレット名／頁 pamphlet_mei_page   利用ホテル riyou_hotel         *)
(*   宿泊開始日 shukuhaku_kaishibi  泊数 hakusuu   ホテル名 hotel_mei      *)
(*   食事 shokuji (朝食 choushoku, 朝夕食 chouyuushoku,                    *)
(*                 食事なし shokuji_nashi)                                 *)
(*   タバコ tabako (禁煙 kinen, 喫煙 kitsuen, どちらでも dochirademo)      *)
(*   参加人数 sanka_ninzuu (大人 otona, 子供 kodomo, 幼児 youji)           *)
(*   ○ maru                                                               *)
(*   月火水木金土日 getsu ka sui moku kin do nichi                         *)
(***************************************************************************)
EXTENDS Integers, Sequences, FiniteSets, TLC

(***************************************************************************)
(* Python values.  Every value carries its type in the field t.  A str is  *)
(* a sequence of symbols: a decimal digit "0".."9", the hyphen "-", the    *)
(* newline "\n", or one romanised name standing for a run of other         *)
(* characters.  A dict is the sequence of its (key, value) pairs in        *)
(* insertion order; a key is the single symbol of a one symbol str.        *)
(***************************************************************************)
Str(s) == [t |-> "string", s |-> s]
Sym(name) == <<name>>
IntV(n) == [t |-> "integer", n |-> n]
Date(y, m, d) == [t |-> "date", y |-> y, m |-> m, d |-> d]
None == [t |-> "none"]
KV(k, x) == [k |-> k, v |-> x]
Dict(pairs) == [t |-> "dict", kv |-> pairs]
List(items) == [t |-> "list", items |-> items]

\* A path segment: a dict key or a list index (0-based, as in the source).
K(name) == [s |-> "key", k |-> name]
Ix(i) == [s |-> "idx", i |-> i]

\* The outcome of a call: a returned value or a raised exception.
Ok(x) == [ok |-> TRUE, v |-> x]
Raise(exc) == [ok |-> FALSE, exc |-> exc]

DrawingPosition(x, y, font_size, char_space) ==
    [t |-> "DrawingPosition", x |-> x, y |-> y,
     font_size |-> font_size, char_space |-> char_space]

NoPosition ==
    [t |-> "NoPosition", x |-> -1, y |-> -1, font_size |-> -1, char_space |-> 0]

\* NoPosition without its override of is_drawable
is_drawable_always(position) == TRUE

\* DrawingPosition.is_drawable / NoPosition.is_drawable
is_drawable(position) == position.t # "NoPosition"

TextOnPage(text, position) == [text |-> text, position |-> position]

(***************************************************************************)
(* dict and list primitives                                                *)
(***************************************************************************)
HasKey(d, name) == \E n \in 1..Len(d.kv) : d.kv[n].k = name
Get(d, name) == d.kv[CHOOSE n \in 1..Len(d.kv) : d.kv[n].k = name].v
Keys(d) == {d.kv[n].k : n \in 1..Len(d.kv)}

\* d[name] = x: an existing key keeps its place, a new key goes last.
Put(d, name, x) ==
    IF HasKey(d, name)
    THEN Dict([n \in 1..Len(d.kv) |->
                  IF d.kv[n].k = name THEN KV(name, x) ELSE d.kv[n]])
    ELSE Dict(Append(d.kv, KV(name, x)))

\* del d[name]
Del(d, name) == Dict(SelectSeq(d.kv, LAMBDA p : p.k # name))

\* ret[key] of get_deep_element for any container and any key
GetItem(c, key) ==
    CASE c.t = "dict" ->
           IF key.s = "key" /\ HasKey(c, key.k)
           THEN Ok(Get(c, key.k)) ELSE Raise("KeyError")
      [] c.t = "list" ->
           IF key.s # "idx" THEN Raise("TypeError")
           ELSE IF key.i >= 0 /\ key.i < Len(c.items)
           THEN Ok(c.items[key.i + 1]) ELSE Raise("IndexError")
      [] c.t = "string" ->
           IF key.s # "idx" THEN Raise("TypeError")
           ELSE IF key.i >= 0 /\ key.i < Len(c.s)
           THEN Ok(Str(<<c.s[key.i + 1]>>)) ELSE Raise("IndexError")
      [] OTHER -> Raise("TypeError")

RECURSIVE get_deep_element(_, _)
get_deep_element(d, keys) ==
    IF keys = <<>> THEN Ok(d)
    ELSE LET r == GetItem(d, Head(keys))
         IN  IF r.ok THEN get_deep_element(r.v, Tail(keys)) ELSE r

(***************************************************************************)
(* BOOKING_DATA_POSITIONS                                                  *)
(***************************************************************************)
PhonePositions(y, ymark) ==
    Dict(<<
      KV("bangou", List(<<DrawingPosition(225, y, 10, 2),
                          DrawingPosition(290, y, 10, 2),
                          DrawingPosition(360, y, 10, 2)>>)),
      KV("shubetsu", Dict(<<
          KV("keitai", DrawingPosition(441, ymark, 16, 0)),
          KV("jitaku", DrawingPosition(465, ymark, 16, 0)),
          KV("kinmusaki", DrawingPosition(493, ymark, 16, 0))>>))>>)

AddressPositions(ymark, y) ==
    Dict(<<
      KV("shubetsu", Dict(<<
          KV("jitaku", DrawingPosition(144, ymark, 16, 0)),
          KV("kinmusaki", DrawingPosition(177, ymark, 16, 0))>>)),
      KV("yuubin_bangou", DrawingPosition(217, y, 8, 2)),
      KV("juusho", DrawingPosition(266, y, 8, 0))>>)

DurationPositions(xy, xm, xd, xw) ==
    Dict(<<KV("year", DrawingPosition(xy, 556, 10, 0)),
           KV("month", DrawingPosition(xm, 556, 10, 0)),
           KV("day", DrawingPosition(xd, 556, 10, 0)),
           KV("dow", DrawingPosition(xw, 556, 10, 0))>>)

HotelPositions(xm, xd, xn, xname, m1, m2, m3, s1, s2) ==
    Dict(<<
      KV("shukuhaku_kaishibi", Dict(<<
          KV("month", DrawingPosition(xm, 516, 9, 0)),
          KV("day", DrawingPosition(xd, 516, 9, 0))>>)),
      KV("hakusuu", DrawingPosition(xn, 516, 9, 0)),
      KV("hotel_mei", DrawingPosition(xname, 501, 9, 0)),
      KV("shokuji", Dict(<<
          KV("choushoku", DrawingPosition(m1, 481, 16, 0)),
          KV("chouyuushoku", DrawingPosition(m2, 481, 16, 0)),
          KV("shokuji_nashi", DrawingPosition(m3, 481, 16, 0))>>)),
      KV("tabako", Dict(<<
          KV("kinen", DrawingPosition(s1, 481, 16, 0)),
          KV("kitsuen", DrawingPosition(s2, 481, 16, 0)),
          KV("dochirademo", NoPosition)>>))>>)

BOOKING_DATA_POSITIONS ==
    Dict(<<
      KV("iraibi", Dict(<<
          KV("heisei_year", DrawingPosition(62, 747, 9, 0)),
          KV("month", DrawingPosition(84, 747, 9, 0)),
          KV("day", DrawingPosition(104, 747, 9, 0))>>)),
      KV("riyou_daihyousha", Dict(<<
          KV("riyou_daihyousha_mei", DrawingPosition(180, 712, 10, 0)),
          KV("furigana", DrawingPosition(180, 732, 10, 0)),
          KV("seibetsu", Dict(<<
              KV("otoko", DrawingPosition(501, 711, 16, 0)),
              KV("onna", DrawingPosition(535, 711, 16, 0))>>)),
          KV("kinmusaki_mei", DrawingPosition(180, 690, 9, 0)),
          KV("hokenshou", Dict(<<
              KV("kigou", DrawingPosition(490, 690, 10, 2)),
              KV("bangou", DrawingPosition(540, 690, 10, 2))>>)),
          KV("renrakusaki_denwa_bangou", List(<<
              PhonePositions(668, 666),
              PhonePositions(647, 645)>>))>>)),
      KV("soufusaki", Dict(<<
          KV("seikyuusho_soufusaki_juusho", AddressPositions(606, 609)),
          KV("ryokoushorui_soufusaki_juusho", AddressPositions(585, 589))>>)),
      KV("riyou_kibou_course", Dict(<<
          KV("ryokou_kikan", Dict(<<
              KV("kaishibi", DurationPositions(87, 135, 170, 204)),
              KV("shuuryoubi", DurationPositions(242, 290, 322, 355))>>)),
          KV("tour_code", DrawingPosition(445, 556, 10, 2)),
          KV("tour_mei", DrawingPosition(87, 536, 10, 0)),
          KV("pamphlet_mei_page", DrawingPosition(440, 536, 10, 0)),
          KV("riyou_hotel", List(<<
              HotelPositions(85, 108, 143, 81, 83, 114, 154, 192, 217),
              HotelPositions(249, 272, 307, 245, 251, 283, 318, 361, 386),
              HotelPositions(415, 438, 473, 412, 415, 448, 488, 526, 551)>>)),
          KV("sanka_ninzuu", Dict(<<
              KV("otona", DrawingPosition(125, 450, 10, 0)),
              KV("kodomo", DrawingPosition(125, 436, 10, 0)),
              KV("youji", DrawingPosition(125, 421, 10, 0))>>))>>))>>)

(***************************************************************************)
(* str() of the values the formatters stringify                            *)
(***************************************************************************)
DigitChars == <<"0", "1", "2", "3", "4", "5", "6", "7", "8", "9">>

RECURSIVE Digits(_)
Digits(n) ==
    IF n < 10 THEN <<DigitChars[n + 1]>>
    ELSE Append(Digits(n \div 10), DigitChars[(n % 10) + 1])

\* str(n) of an int
StrOfInt(n) == IF n < 0 THEN <<"-">> \o Digits(-n) ELSE Digits(n)

\* n printed with at least w digits, as date.__str__ prints year, month, day
RECURSIVE ZeroPad(_, _)
ZeroPad(s, w) == IF Len(s) >= w THEN s ELSE ZeroPad(<<"0">> \o s, w)

\* str(x): a str is itself, an int its decimal digits, a date ISO 8601
PyStr(x) ==
    CASE x.t = "string" -> x.s
      [] x.t = "integer" -> StrOfInt(x.n)
      [] x.t = "date" -> ZeroPad(Digits(x.y), 4) \o <<"-">>
                         \o ZeroPad(Digits(x.m), 2) \o <<"-">>
                         \o ZeroPad(Digits(x.d), 2)
      [] x.t = "none" -> <<"None">>

(***************************************************************************)
(* datetime.date.weekday(): Monday is 0                                    *)
(***************************************************************************)
IsLeap(y) == y % 4 = 0 /\ (y % 100 # 0 \/ y % 400 = 0)

DaysInMonth(y, m) ==
    IF m = 2 THEN (IF IsLeap(y) THEN 29 ELSE 28)
    ELSE IF m \in {4, 6, 9, 11} THEN 30 ELSE 31

RECURSIVE DaysBeforeMonth(_, _)
DaysBeforeMonth(y, m) ==
    IF m = 1 THEN 0 ELSE DaysBeforeMonth(y, m - 1) + DaysInMonth(y, m - 1)

ToOrdinal(dt) ==
    LET y1 == dt.y - 1
    IN  y1 * 365 + (y1 \div 4) - (y1 \div 100) + (y1 \div 400)
        + DaysBeforeMonth(dt.y, dt.m) + dt.d

Weekday(dt) == (ToOrdinal(dt) + 6) % 7

date_to_dow(d) ==
    <<"getsu", "ka", "sui", "moku", "kin", "do", "nichi">>[Weekday(d) + 1]

(***************************************************************************)
(* The formatters.  Each returns Ok(list of TextOnPage) or the exception   *)
(* its first failing expression raises.                                    *)
(***************************************************************************)
\* positions[name] for each name in turn: the first failure, or all of them
RECURSIVE Subscripts(_, _)
Subscripts(positions, keys) ==
    IF keys = <<>> THEN Ok(<<>>)
    ELSE LET r == GetItem(positions, Head(keys))
         IN  IF ~r.ok THEN r
             ELSE LET rest == Subscripts(positions, Tail(keys))
                  IN  IF rest.ok THEN Ok(<<r.v>> \o rest.v) ELSE rest

create_text(text, position) ==
    LET t == IF text.t = "none" THEN Str(<<>>) ELSE text
    IN  Ok(<<TextOnPage(PyStr(t), position)>>)

EPOCH == 1988

\* heisei_year = booking_date.year - 1988
HeiseiYear(booking_date) == booking_date.y - EPOCH

create_booking_date_text(booking_date, positions) ==
    IF booking_date.t # "date" THEN Raise("AttributeError")
    ELSE LET p == Subscripts(positions,
                             <<K("heisei_year"), K("month"), K("day")>>)
         IN  IF ~p.ok THEN p
             ELSE Ok(<<TextOnPage(StrOfInt(HeiseiYear(booking_date)), p.v[1]),
                       TextOnPage(StrOfInt(booking_date.m), p.v[2]),
                       TextOnPage(StrOfInt(booking_date.d), p.v[3])>>)

create_duration_text(duration_date, positions) ==
    IF duration_date.t # "date" THEN Raise("AttributeError")
    ELSE LET p == Subscripts(positions,
                             <<K("year"), K("month"), K("day"), K("dow")>>)
         IN  IF ~p.ok THEN p
             ELSE Ok(<<TextOnPage(StrOfInt(duration_date.y), p.v[1]),
                       TextOnPage(StrOfInt(duration_date.m), p.v[2]),
                       TextOnPage(StrOfInt(duration_date.d), p.v[3]),
                       TextOnPage(Sym(date_to_dow(duration_date)), p.v[4])>>)

create_hotel_date_text(date_to_visit, positions) ==
    IF date_to_visit.t # "date" THEN Raise("AttributeError")
    ELSE LET p == Subscripts(positions, <<K("month"), K("day")>>)
         IN  IF ~p.ok THEN p
             ELSE Ok(<<TextOnPage(StrOfInt(date_to_visit.m), p.v[1]),
                       TextOnPage(StrOfInt(date_to_visit.d), p.v[2])>>)

\* the loop of line 435 returning in its first round whatever text is
FirstMatchFirstItem(selectable_items, text) ==
    IF selectable_items = <<>> THEN 0 ELSE 1

\* The first item of selectable_items equal to text, 0 if there is none.
FirstMatch(selectable_items, text) ==
    LET hits == {n \in 1..Len(selectable_items) :
                    text.t = "string" /\ text.s = selectable_items[n]}
    IN  IF hits = {} THEN 0 ELSE CHOOSE n \in hits : \A m \in hits : n <= m

\* the closure generate_selection_creator(selectable_items) returns
selection_creator(selectable_items, text, positions) ==
    LET n == FirstMatch(selectable_items, text)
    IN  IF n = 0 THEN Raise("RuntimeError")
        ELSE LET p == GetItem(positions, K(selectable_items[n][1]))
             IN  IF ~p.ok THEN p ELSE Ok(<<TextOnPage(Sym("maru"), p.v)>>)

\* a split that leaves the empty runs out
RECURSIVE SplitSkippingEmpty(_, _)
SplitSkippingEmpty(text, sep) ==
    IF text = <<>> THEN <<>>
    ELSE IF Head(text) = sep THEN SplitSkippingEmpty(Tail(text), sep)
    ELSE LET run == CHOOSE n \in 1..Len(text) :
                        /\ \A m \in 1..n : text[m] # sep
                        /\ (n = Len(text) \/ text[n + 1] = sep)
         IN  <<SubSeq(text, 1, run)>>
             \o SplitSkippingEmpty(SubSeq(text, run + 1, Len(text)), sep)

\* text.split(sep): the runs between the separators, empty runs included
RECURSIVE Split(_, _)
Split(text, sep) ==
    IF \A n \in 1..Len(text) : text[n] # sep THEN <<text>>
    ELSE LET n == CHOOSE n \in 1..Len(text) :
                      text[n] = sep /\ \A m \in 1..(n - 1) : text[m] # sep
         IN  <<SubSeq(text, 1, n - 1)>>
             \o Split(SubSeq(text, n + 1, Len(text)), sep)

PHONE_PARTS == 3

create_phone_number_text(text, positions) ==
    IF text.t # "string" THEN Raise("AttributeError")
    ELSE LET phone_number_parts == Split(text.s, "-")
         IN  IF Len(phone_number_parts) # PHONE_PARTS
             THEN Raise("AssertionError")
             ELSE LET p == Subscripts(positions,
                                      [n \in 1..PHONE_PARTS |-> Ix(n - 1)])
                  IN  IF ~p.ok THEN p
                      ELSE Ok([n \in 1..PHONE_PARTS |->
                                  TextOnPage(phone_number_parts[n], p.v[n])])

\* A creator is named by f; the selection closure carries its items.
Creator(f) == [f |-> f]
generate_selection_creator(selectable_items) ==
    [f |-> "selection", items |-> selectable_items]

Call(creator, data_element, drawing_element) ==
    CASE creator.f = "create_text" ->
           create_text(data_element, drawing_element)
      [] creator.f = "create_booking_date_text" ->
           create_booking_date_text(data_element, drawing_element)
      [] creator.f = "create_duration_text" ->
           create_duration_text(data_element, drawing_element)
      [] creator.f = "create_hotel_date_text" ->
           create_hotel_date_text(data_element, drawing_element)
      [] creator.f = "create_phone_number_text" ->
           create_phone_number_text(data_element, drawing_element)
      [] creator.f = "selection" ->
           selection_creator(creator.items, data_element, drawing_element)

\* create_texts that passes over a field the document lacks
create_texts_skip_missing(data, target_keys, creator) ==
    LET data_element == get_deep_element(data, target_keys)
        drawing_element == get_deep_element(BOOKING_DATA_POSITIONS, target_keys)
    IN  IF ~data_element.ok \/ ~drawing_element.ok THEN Ok(<<>>)
        ELSE Call(creator, data_element.v, drawing_element.v)

create_texts(data, target_keys, creator) ==
    LET data_element == get_deep_element(data, target_keys)
    IN  IF ~data_element.ok THEN data_element
        ELSE LET drawing_element ==
                     get_deep_element(BOOKING_DATA_POSITIONS, target_keys)
             IN  IF ~drawing_element.ok THEN drawing_element
                 ELSE Call(creator, data_element.v, drawing_element.v)

(***************************************************************************)
(* booking_data_dict_to_texts: the field plan                              *)
(***************************************************************************)
Entry(target_keys, creator) == [op |-> "texts", keys |-> target_keys, creator |-> creator]

DAIHYOUSHA == K("riyou_daihyousha")
DENWA == K("renrakusaki_denwa_bangou")
SOUFUSAKI == K("soufusaki")
SEIKYUUSHO == K("seikyuusho_soufusaki_juusho")
RYOKOUSHORUI == K("ryokoushorui_soufusaki_juusho")
COURSE == K("riyou_kibou_course")
HOTEL == K("riyou_hotel")
NINZUU == K("sanka_ninzuu")

PHONE_KINDS == <<Sym("keitai"), Sym("jitaku"), Sym("kinmusaki")>>
ADDRESS_KINDS == <<Sym("jitaku"), Sym("kinmusaki")>>
MEALS == <<Sym("choushoku"), Sym("chouyuushoku"), Sym("shokuji_nashi")>>
SMOKING == <<Sym("kinen"), Sym("kitsuen"), Sym("dochirademo")>>

\* lines 346-373: the entries before the hotel loop
HeadPlan ==
    << Entry(<<K("iraibi")>>, Creator("create_booking_date_text")),
       Entry(<<DAIHYOUSHA, K("riyou_daihyousha_mei")>>, Creator("create_text")),
       Entry(<<DAIHYOUSHA, K("furigana")>>, Creator("create_text")),
       Entry(<<DAIHYOUSHA, K("seibetsu")>>,
             generate_selection_creator(<<Sym("otoko"), Sym("onna")>>)),
       Entry(<<DAIHYOUSHA, K("kinmusaki_mei")>>, Creator("create_text")),
       Entry(<<DAIHYOUSHA, K("hokenshou"), K("kigou")>>, Creator("create_text")),
       Entry(<<DAIHYOUSHA, K("hokenshou"), K("bangou")>>, Creator("create_text")),
       Entry(<<DAIHYOUSHA, DENWA, Ix(0), K("bangou")>>,
             Creator("create_phone_number_text")),
       Entry(<<DAIHYOUSHA, DENWA, Ix(0), K("shubetsu")>>,
             generate_selection_creator(PHONE_KINDS)),
       Entry(<<DAIHYOUSHA, DENWA, Ix(1), K("bangou")>>,
             Creator("create_phone_number_text")),
       Entry(<<DAIHYOUSHA, DENWA, Ix(1), K("shubetsu")>>,
             generate_selection_creator(PHONE_KINDS)),
       Entry(<<SOUFUSAKI, SEIKYUUSHO, K("shubetsu")>>,
             generate_selection_creator(ADDRESS_KINDS)),
       Entry(<<SOUFUSAKI, SEIKYUUSHO, K("yuubin_bangou")>>, Creator("create_text")),
       Entry(<<SOUFUSAKI, SEIKYUUSHO, K("juusho")>>, Creator("create_text")),
       Entry(<<SOUFUSAKI, RYOKOUSHORUI, K("shubetsu")>>,
             generate_selection_creator(ADDRESS_KINDS)),
       Entry(<<SOUFUSAKI, RYOKOUSHORUI, K("yuubin_bangou")>>, Creator("create_text")),
       Entry(<<SOUFUSAKI, RYOKOUSHORUI, K("juusho")>>, Creator("create_text")),
       Entry(<<COURSE, K("ryokou_kikan"), K("kaishibi")>>,
             Creator("create_duration_text")),
       Entry(<<COURSE, K("ryokou_kikan"), K("shuuryoubi")>>,
             Creator("create_duration_text")),
       Entry(<<COURSE, K("tour_code")>>, Creator("create_text")),
       Entry(<<COURSE, K("tour_mei")>>, Creator("create_text")),
       Entry(<<COURSE, K("pamphlet_mei_page")>>, Creator("create_text")) >>

\* lines 375-379: the body of the hotel loop for index i
HotelPlan(i) ==
    << Entry(<<COURSE, HOTEL, Ix(i), K("shukuhaku_kaishibi")>>,
             Creator("create_hotel_date_text")),
       Entry(<<COURSE, HOTEL, Ix(i), K("hakusuu")>>, Creator("create_text")),
       Entry(<<COURSE, HOTEL, Ix(i), K("hotel_mei")>>, Creator("create_text")),
       Entry(<<COURSE, HOTEL, Ix(i), K("shokuji")>>,
             generate_selection_creator(MEALS)),
       Entry(<<COURSE, HOTEL, Ix(i), K("tabako")>>,
             generate_selection_creator(SMOKING)) >>

\* lines 380-382: the entries after the hotel loop
TailPlan ==
    << Entry(<<COURSE, NINZUU, K("otona")>>, Creator("create_text")),
       Entry(<<COURSE, NINZUU, K("kodomo")>>, Creator("create_text")),
       Entry(<<COURSE, NINZUU, K("youji")>>, Creator("create_text")) >>

\* the loop bodies of range(n), one after the other
RECURSIVE LoopPlan(_)
LoopPlan(n) == IF n <= 0 THEN <<>> ELSE LoopPlan(n - 1) \o HotelPlan(n - 1)

\* len(x)
PyLen(x) ==
    CASE x.t = "list" -> Ok(Len(x.items))
      [] x.t = "dict" -> Ok(Len(x.kv))
      [] x.t = "string" -> Ok(Len(x.s))
      [] OTHER -> Raise("TypeError")

\* the loop running over every slot of the registry
HotelCountFixed(booking_data) ==
    PyLen(get_deep_element(BOOKING_DATA_POSITIONS, <<COURSE, HOTEL>>).v)

\* line 374: len(booking_data[COURSE][HOTEL])
HotelCount(booking_data) ==
    LET h == get_deep_element(booking_data, <<COURSE, HOTEL>>)
    IN  IF h.ok THEN PyLen(h.v) ELSE h

\* The statements of the function body in execution order, the loop unrolled
\* for a range of n.
Statements(n) ==
    HeadPlan \o <<[op |-> "range"]>> \o LoopPlan(n) \o TailPlan

AccumulateFront(ret, new) == new \o ret

\* ret += new
Accumulate(ret, new) == ret \o new

RECURSIVE RunPlan(_, _, _)
RunPlan(booking_data, plan, ret) ==
    IF plan = <<>> THEN Ok(ret)
    ELSE LET r == create_texts(booking_data, Head(plan).keys, Head(plan).creator)
         IN  IF ~r.ok THEN r
             ELSE RunPlan(booking_data, Tail(plan), Accumulate(ret, r.v))

\* The whole call: the list returned, or the first exception raised.
booking_data_dict_to_texts(booking_data) ==
    LET h == RunPlan(booking_data, HeadPlan, <<>>)
    IN  IF ~h.ok THEN h
        ELSE LET n == HotelCount(booking_data)
             IN  IF ~n.ok THEN n
                 ELSE LET l == RunPlan(booking_data, LoopPlan(n.v), h.v)
                      IN  IF ~l.ok THEN l
                          ELSE RunPlan(booking_data, TailPlan, l.v)

(***************************************************************************)
(* State                                                                   *)
(***************************************************************************)
VARIABLES
    today,              \* date.today() when the module was imported (line 53)
    call,               \* the function of the module the caller called
    booking_data,       \* the document the caller passed
    pc,                 \* where the call is
    booking_data_dict,  \* add_info_on_booking_request_paper: the local
    line,               \* booking_data_dict_to_texts: the next statement
    hotel_count,        \* booking_data_dict_to_texts: the range of the loop
    ret,                \* booking_data_dict_to_texts: the local ret
    origin,             \* for each element of ret, the statement that made it
    texts,              \* the list booking_data_dict_to_texts returned
    exc,                \* the exception that reached the caller
    errors,             \* validator.errors of the last validation
    cursor,             \* add_text_on_page: the next element of texts
    canvas,             \* add_text_on_page: the texts drawn so far
    out_written,        \* edit_booking_request_paper: out_paper_file written
    result,             \* what a function called on its own returned
    creator,            \* a formatter called on its own
    data_element,       \* its first argument
    drawing_element     \* its second argument

formatter_call == <<creator, data_element, drawing_element>>

vars == <<today, call, booking_data, pc, booking_data_dict, line, hotel_count,
          ret, origin, texts, exc, errors, cursor, canvas, out_written, result,
          formatter_call>>

(***************************************************************************)
(* BOOKING_DATA_SCHEMA and the cerberus rules it uses                      *)
(***************************************************************************)
Field(k, r) == [k |-> k, r |-> r]

\* A pattern is a sequence of atoms: a run of min..max digits (max = -1: no
\* upper limit) or one literal character.
DigitRun(min, max) == [a |-> "digits", min |-> min, max |-> max]
Lit(c) == [a |-> "lit", c |-> c]

\* r'^\d+-\d+-\d+$'
PHONE_REGEX == <<DigitRun(1, -1), Lit("-"), DigitRun(1, -1), Lit("-"), DigitRun(1, -1)>>
\* r'^\d{3}-\d{4}$'
POSTAL_REGEX == <<DigitRun(3, 3), Lit("-"), DigitRun(4, 4)>>

StringRule == [type |-> "string", required |-> TRUE]
DateRule == [type |-> "date", required |-> TRUE]

AddressSchema ==
    [type |-> "dict", required |-> TRUE, schema |-> <<
        Field("shubetsu", [type |-> "string", required |-> TRUE,
                           allowed |-> ADDRESS_KINDS]),
        Field("yuubin_bangou", [type |-> "string", required |-> TRUE,
                                regex |-> POSTAL_REGEX]),
        Field("juusho", StringRule)>>]

BOOKING_DATA_SCHEMA ==
    << Field("iraibi", [type |-> "date", default |-> today]),
       Field("riyou_daihyousha", [type |-> "dict", required |-> TRUE, schema |-> <<
           Field("riyou_daihyousha_mei", StringRule),
           Field("furigana", StringRule),
           Field("seibetsu", [type |-> "string", required |-> TRUE,
                              allowed |-> <<Sym("otoko"), Sym("onna")>>]),
           Field("kinmusaki_mei", StringRule),
           Field("hokenshou", [type |-> "dict", required |-> TRUE, schema |-> <<
               Field("kigou", [type |-> "integer", required |-> TRUE, min |-> 0]),
               Field("bangou", [type |-> "integer", required |-> TRUE, min |-> 0])>>]),
           Field("renrakusaki_denwa_bangou",
                 [type |-> "list", required |-> TRUE,
                  minlength |-> 2, maxlength |-> 2,
                  schema |-> [type |-> "dict", required |-> TRUE, schema |-> <<
                      Field("bangou", [type |-> "string", required |-> TRUE,
                                       regex |-> PHONE_REGEX, maxlength |-> 13]),
                      Field("shubetsu", [type |-> "string", required |-> TRUE,
                                         allowed |-> PHONE_KINDS])>>]])>>]),
       Field("soufusaki", [type |-> "dict", required |-> TRUE, schema |-> <<
           Field("seikyuusho_soufusaki_juusho", AddressSchema),
           Field("ryokoushorui_soufusaki_juusho", AddressSchema)>>]),
       Field("riyou_kibou_course", [type |-> "dict", required |-> TRUE, schema |-> <<
           Field("ryokou_kikan", [type |-> "dict", required |-> TRUE, schema |-> <<
               Field("kaishibi", DateRule),
               Field("shuuryoubi", DateRule)>>]),
           Field("tour_code", StringRule),
           Field("tour_mei", StringRule),
           Field("pamphlet_mei_page", [type |-> "string", default |-> Str(<<>>)]),
           Field("riyou_hotel",
                 [type |-> "list", required |-> TRUE,
                  minlength |-> 1, maxlength |-> 3,
                  schema |-> [type |-> "dict", required |-> TRUE, schema |-> <<
                      Field("shukuhaku_kaishibi", DateRule),
                      Field("hakusuu", [type |-> "integer", required |-> TRUE]),
                      Field("hotel_mei", StringRule),
                      Field("shokuji", [type |-> "string", required |-> TRUE,
                                        allowed |-> MEALS]),
                      Field("tabako", [type |-> "string",
                                       default |-> Str(Sym("dochirademo")),
                                       allowed |-> SMOKING])>>]]),
           Field("sanka_ninzuu", [type |-> "dict", required |-> TRUE, schema |-> <<
               Field("otona", [type |-> "integer", default |-> IntV(1)]),
               Field("kodomo", [type |-> "integer", default |-> IntV(0)]),
               Field("youji", [type |-> "integer", default |-> IntV(0)])>>])>>]) >>

Has(rules, rule) == rule \in DOMAIN rules
Declares(schema, name) == \E n \in 1..Len(schema) : schema[n].k = name
RulesOf(schema, name) ==
    schema[CHOOSE n \in 1..Len(schema) : schema[n].k = name].r

IsDigit(c) == \E n \in 1..10 : DigitChars[n] = c

\* the number of leading digits of s
RECURSIVE LeadingDigits(_)
LeadingDigits(s) ==
    IF s = <<>> \/ ~IsDigit(Head(s)) THEN 0 ELSE 1 + LeadingDigits(Tail(s))

\* re.match(pattern, s) with no '$': whatever follows the match passes
RECURSIVE MatchesPrefix(_, _)
MatchesPrefix(pattern, s) ==
    IF pattern = <<>> THEN TRUE
    ELSE LET atom == Head(pattern)
         IN  IF atom.a = "lit"
             THEN s # <<>> /\ Head(s) = atom.c
                  /\ MatchesPrefix(Tail(pattern), Tail(s))
             ELSE LET run == LeadingDigits(s)
                      take == IF atom.max >= 0 /\ run > atom.max
                              THEN atom.max ELSE run
                  IN  take >= atom.min
                      /\ MatchesPrefix(Tail(pattern), SubSeq(s, take + 1, Len(s)))

\* re.match(pattern + '$', s): '$' matches at the end of the string and
\* before a newline that ends it.  The atoms never overlap (a digit run is
\* followed by a literal that is no digit, or by the end), so the longest
\* run is the only one that can match.
RECURSIVE Matches(_, _)
Matches(pattern, s) ==
    IF pattern = <<>> THEN s = <<>> \/ s = <<"\n">>
    ELSE LET atom == Head(pattern)
         IN  IF atom.a = "lit"
             THEN s # <<>> /\ Head(s) = atom.c /\ Matches(Tail(pattern), Tail(s))
             ELSE LET run == LeadingDigits(s)
                      take == IF atom.max >= 0 /\ run > atom.max
                              THEN atom.max ELSE run
                  IN  take >= atom.min
                      /\ Matches(Tail(pattern), SubSeq(s, take + 1, Len(s)))

(***************************************************************************)
(* cerberus.Validator(BOOKING_DATA_SCHEMA).validated(document)             *)
(*                                                                         *)
(* Normalisation works on a copy: defaults are set for the fields of a     *)
(* mapping that are absent or None, then the containers are normalised     *)
(* in turn.  Validation then collects the errors of every field.           *)
(***************************************************************************)
\* a normalisation that sets the default whether or not the field is set
RECURSIVE NormalizeDefaultsAlways(_, _)
NormalizeDefaultsAlways(mapping, schema) ==
    IF schema = <<>> THEN mapping
    ELSE NormalizeDefaultsAlways(
             IF Has(Head(schema).r, "default")
             THEN Put(mapping, Head(schema).k, Head(schema).r.default)
             ELSE mapping,
             Tail(schema))

\* __normalize_default_fields: in schema order, mapping[field] = default
RECURSIVE NormalizeDefaults(_, _)
NormalizeDefaults(mapping, schema) ==
    IF schema = <<>> THEN mapping
    ELSE LET f == Head(schema)
             unset == ~HasKey(mapping, f.k) \/ Get(mapping, f.k).t = "none"
         IN  NormalizeDefaults(
                 IF unset /\ Has(f.r, "default")
                 THEN Put(mapping, f.k, f.r.default) ELSE mapping,
                 Tail(schema))

RECURSIVE NormalizeMapping(_, _)
RECURSIVE NormalizeContainer(_, _)

\* __normalize_containers for one field: a mapping under a rule set whose
\* schema is a mapping of fields, a sequence under one whose schema is the
\* rule set of its items; anything else is left as it is.
NormalizeContainer(value, rules) ==
    IF ~Has(rules, "schema") THEN value
    ELSE IF value.t = "dict" /\ rules.type = "dict"
    THEN NormalizeMapping(value, rules.schema)
    ELSE IF value.t = "list" /\ rules.type = "list"
    THEN List([n \in 1..Len(value.items) |->
                  NormalizeContainer(value.items[n], rules.schema)])
    ELSE value

\* __normalize_mapping
NormalizeMapping(mapping, schema) ==
    LET m == NormalizeDefaults(mapping, schema)
    IN  Dict([n \in 1..Len(m.kv) |->
                 IF Declares(schema, m.kv[n].k)
                 THEN KV(m.kv[n].k,
                         NormalizeContainer(m.kv[n].v, RulesOf(schema, m.kv[n].k)))
                 ELSE m.kv[n]])

Error(path, rule) == [path |-> path, rule |-> rule]

RECURSIVE ErrorsOfMapping(_, _, _)
RECURSIVE ErrorsOfField(_, _, _)

\* __validate_definitions: the rules of one field against its value.  A
\* None value fails nullable and a value of the wrong type fails type;
\* either drops the remaining rules of the field.
ErrorsOfField(rules, value, path) ==
    IF value.t = "none" THEN {Error(path, "nullable")}
    ELSE IF value.t # rules.type THEN {Error(path, "type")}
    ELSE
      (IF Has(rules, "allowed") /\ value.t = "string"
          /\ \A n \in 1..Len(rules.allowed) : rules.allowed[n] # value.s
       THEN {Error(path, "allowed")} ELSE {})
      \cup
      (IF Has(rules, "min") /\ value.t = "integer" /\ value.n < rules.min
       THEN {Error(path, "min")} ELSE {})
      \cup
      (IF Has(rules, "minlength") /\ PyLen(value).v < rules.minlength
       THEN {Error(path, "minlength")} ELSE {})
      \cup
      (IF Has(rules, "maxlength") /\ PyLen(value).v > rules.maxlength
       THEN {Error(path, "maxlength")} ELSE {})
      \cup
      (IF Has(rules, "regex") /\ value.t = "string"
          /\ ~Matches(rules.regex, value.s)
       THEN {Error(path, "regex")} ELSE {})
      \cup
      (IF ~Has(rules, "schema") THEN {}
       ELSE IF value.t = "dict"
       THEN ErrorsOfMapping(value, rules.schema, path)
       ELSE UNION {ErrorsOfField(rules.schema, value.items[n], Append(path, Ix(n - 1)))
                     : n \in 1..Len(value.items)})

\* validate without __validate_required_fields
ErrorsOfMappingNoRequired(mapping, schema, path) ==
    UNION {IF Declares(schema, mapping.kv[n].k)
           THEN ErrorsOfField(RulesOf(schema, mapping.kv[n].k), mapping.kv[n].v,
                              Append(path, K(mapping.kv[n].k)))
           ELSE {Error(Append(path, K(mapping.kv[n].k)), "unknown")}
             : n \in 1..Len(mapping.kv)}

\* a validate that stops at the first error it finds
ErrorsOfMappingFirstOnly(mapping, schema, path) ==
    LET found == ErrorsOfMappingNoRequired(mapping, schema, path)
                 \cup {Error(Append(path, K(schema[n].k)), "required") :
                         n \in {m \in 1..Len(schema) :
                                  /\ Has(schema[m].r, "required")
                                  /\ schema[m].r.required
                                  /\ ~HasKey(mapping, schema[m].k)}}
    IN  IF found = {} THEN {} ELSE {CHOOSE e \in found : TRUE}

\* a validate under allow_unknown = True: undeclared fields pass
ErrorsOfMappingAllowUnknown(mapping, schema, path) ==
    UNION {IF Declares(schema, mapping.kv[n].k)
           THEN ErrorsOfField(RulesOf(schema, mapping.kv[n].k), mapping.kv[n].v,
                              Append(path, K(mapping.kv[n].k)))
           ELSE {}
             : n \in 1..Len(mapping.kv)}
    \cup
    {Error(Append(path, K(schema[n].k)), "required") :
        n \in {m \in 1..Len(schema) :
                 /\ Has(schema[m].r, "required") /\ schema[m].r.required
                 /\ ~HasKey(mapping, schema[m].k)}}

\* validate: every field of the document against its definition, a field
\* the schema does not declare being an error (allow_unknown is False),
\* then __validate_required_fields.
ErrorsOfMapping(mapping, schema, path) ==
    UNION {IF Declares(schema, mapping.kv[n].k)
           THEN ErrorsOfField(RulesOf(schema, mapping.kv[n].k), mapping.kv[n].v,
                              Append(path, K(mapping.kv[n].k)))
           ELSE {Error(Append(path, K(mapping.kv[n].k)), "unknown")}
             : n \in 1..Len(mapping.kv)}
    \cup
    {Error(Append(path, K(schema[n].k)), "required") :
        n \in {m \in 1..Len(schema) :
                 /\ Has(schema[m].r, "required") /\ schema[m].r.required
                 /\ ~HasKey(mapping, schema[m].k)}}

\* validator.validated(booking_data): the normalised copy and validator.errors
Validated(document) ==
    LET normalized == NormalizeMapping(document, BOOKING_DATA_SCHEMA)
    IN  [document |-> normalized,
         errors |-> ErrorsOfMapping(normalized, BOOKING_DATA_SCHEMA, <<>>)]

\* validate_booking_data without the check of line 337
validate_booking_data_unchecked(document) ==
    Ok(Validated(document).document)

\* validated() returns None when there are errors, and line 338 raises
validate_booking_data(document) ==
    LET validated_data == Validated(document)
    IN  IF validated_data.errors # {}
        THEN Raise("RuntimeError")
        ELSE Ok(validated_data.document)

(***************************************************************************)
(* The documents the calls are made with: the sample of the module's       *)
(* __main__ block (lines 505-593) with a hotel list of chosen length, and  *)
(* the edits that take a document away from it.                            *)
(***************************************************************************)
MaxHotels == 4

RECURSIVE SetAt(_, _, _)
SetAt(c, path, x) ==
    IF path = <<>> THEN x
    ELSE LET seg == Head(path)
         IN  IF seg.s = "key"
             THEN Put(c, seg.k,
                      SetAt(IF HasKey(c, seg.k) THEN Get(c, seg.k) ELSE Dict(<<>>),
                            Tail(path), x))
             ELSE List([n \in 1..Len(c.items) |->
                           IF n = seg.i + 1 THEN SetAt(c.items[n], Tail(path), x)
                           ELSE c.items[n]])

RECURSIVE DelAt(_, _)
DelAt(c, path) ==
    LET seg == Head(path)
    IN  IF Len(path) = 1
        THEN (IF seg.s = "key" THEN Del(c, seg.k)
              ELSE List([n \in 1..(Len(c.items) - 1) |->
                            IF n <= seg.i THEN c.items[n] ELSE c.items[n + 1]]))
        ELSE SetAt(c, <<seg>>, DelAt(GetItem(c, seg).v, Tail(path)))

SetEdit(path, x) == [op |-> "set", path |-> path, x |-> x]
DelEdit(path) == [op |-> "del", path |-> path]

\* An edit whose place the document does not have changes nothing.
Applies(doc, e) ==
    IF e.op = "del" THEN get_deep_element(doc, e.path).ok
    ELSE get_deep_element(doc, SubSeq(e.path, 1, Len(e.path) - 1)).ok

RECURSIVE ApplyEdits(_, _)
ApplyEdits(doc, edits) ==
    IF edits = <<>> THEN doc
    ELSE LET e == Head(edits)
         IN  ApplyEdits(IF ~Applies(doc, e) THEN doc
                        ELSE IF e.op = "set" THEN SetAt(doc, e.path, e.x)
                        ELSE DelAt(doc, e.path),
                        Tail(edits))

\* how the hotels of a document state タバコ
SmokeChoices == {"absent", "kinen", "dochirademo", "mixed", "pipe"}

SampleHotel(i, smoke) ==
    LET fixed == <<
            KV("shukuhaku_kaishibi", Date(2019, 1, 15 + i)),
            KV("hakusuu", IntV(1)),
            KV("hotel_mei", Str(<<"Hotel", DigitChars[i + 1]>>)),
            KV("shokuji", Str(MEALS[3 - (i % 3)]))>>
    IN  Dict(IF smoke = "absent" THEN fixed
             ELSE Append(fixed,
                    KV("tabako",
                       Str(IF smoke = "mixed" THEN SMOKING[3 - (i % 3)]
                           ELSE Sym(smoke)))))

PHONE_MOBILE == <<"0", "9", "0", "-", "1", "2", "3", "4", "-", "5", "6", "7", "8">>
PHONE_HOME == <<"0", "1", "2", "3", "-", "4", "5", "-", "6", "7", "8", "9">>
POSTAL_HOME == <<"1", "2", "3", "-", "4", "5", "6", "7">>
POSTAL_OFFICE == <<"3", "4", "5", "-", "6", "7", "8", "9">>

SampleDocument(hotels, smoke) ==
    Dict(<<
      KV("riyou_daihyousha", Dict(<<
          KV("riyou_daihyousha_mei", Str(<<"Kenpo", "Taro">>)),
          KV("furigana", Str(<<"kenpo", "taro">>)),
          KV("seibetsu", Str(Sym("otoko"))),
          KV("kinmusaki_mei", Str(<<"Kabushikigaisha", "maru">>)),
          KV("hokenshou", Dict(<<KV("kigou", IntV(1234)), KV("bangou", IntV(56))>>)),
          KV("renrakusaki_denwa_bangou", List(<<
              Dict(<<KV("bangou", Str(PHONE_MOBILE)),
                     KV("shubetsu", Str(Sym("keitai")))>>),
              Dict(<<KV("bangou", Str(PHONE_HOME)),
                     KV("shubetsu", Str(Sym("jitaku")))>>)>>))>>)),
      KV("soufusaki", Dict(<<
          KV("seikyuusho_soufusaki_juusho", Dict(<<
              KV("shubetsu", Str(Sym("jitaku"))),
              KV("yuubin_bangou", Str(POSTAL_HOME)),
              KV("juusho", Str(<<"Tokyo", "1", "-", "2", "-", "3">>))>>)),
          KV("ryokoushorui_soufusaki_juusho", Dict(<<
              KV("shubetsu", Str(Sym("kinmusaki"))),
              KV("yuubin_bangou", Str(POSTAL_OFFICE)),
              KV("juusho", Str(<<"Tokyo", "4", "-", "5", "-", "6">>))>>))>>)),
      KV("riyou_kibou_course", Dict(<<
          KV("ryokou_kikan", Dict(<<
              KV("kaishibi", Date(2019, 1, 15)),
              KV("shuuryoubi", Date(2019, 1, 18))>>)),
          KV("tour_code", Str(<<"UX", "5", "6", "0", "0", "A">>)),
          KV("tour_mei", Str(<<"Stay Sapporo">>)),
          KV("riyou_hotel", List([n \in 1..hotels |-> SampleHotel(n - 1, smoke)])),
          KV("sanka_ninzuu", Dict(<<
              KV("otona", IntV(3)), KV("kodomo", IntV(1)), KV("youji", IntV(1))>>))>>))>>)

\* The sample with the two fields it leaves to their defaults filled in.
CompleteDocument(hotels, smoke) ==
    ApplyEdits(SampleDocument(hotels, smoke),
               <<SetEdit(<<K("iraibi")>>, Date(2018, 10, 1)),
                 SetEdit(<<COURSE, K("pamphlet_mei_page")>>,
                         Str(<<"xxx", "2", "3">>))>>)

PHONE_TWO_PARTS == <<"0", "1", "2", "3", "-", "4", "5", "6">>
PHONE_FOUR_PARTS == <<"0", "1", "-", "2", "-", "3", "-", "4">>

\* Ways a document departs from the sample, each a sequence of edits.
PipelineDefects ==
    { <<>>,
      <<SetEdit(<<K("iraibi")>>, Date(1980, 5, 5))>>,
      <<DelEdit(<<COURSE, NINZUU, K("youji")>>)>>,
      <<SetEdit(<<COURSE, K("pamphlet_mei_page")>>, None)>>,
      <<SetEdit(<<DAIHYOUSHA, DENWA, Ix(1), K("bangou")>>, Str(PHONE_TWO_PARTS))>>,
      <<SetEdit(<<DAIHYOUSHA, DENWA, Ix(0), K("bangou")>>, Str(PHONE_FOUR_PARTS))>>,
      <<SetEdit(<<DAIHYOUSHA, K("seibetsu")>>, Str(Sym("sonota")))>>,
      <<DelEdit(<<SOUFUSAKI, RYOKOUSHORUI>>)>>,
      <<SetEdit(<<K("bikou")>>, Str(<<"memo">>))>>,
      <<SetEdit(<<DAIHYOUSHA, DENWA, Ix(1), K("bangou")>>,
                Str(PHONE_HOME \o <<"\n">>))>> }

PipelineDocuments ==
    { ApplyEdits(IF complete THEN CompleteDocument(hotels, smoke)
                 ELSE SampleDocument(hotels, smoke), defect) :
        hotels \in 0..MaxHotels, smoke \in SmokeChoices,
        complete \in BOOLEAN, defect \in PipelineDefects }

Todays == {Date(2018, 10, 1), Date(2019, 4, 30)}

(***************************************************************************)
(* add_info_on_booking_request_paper and booking_data_dict_to_texts        *)
(***************************************************************************)
NotCalled ==
    /\ booking_data_dict = None
    /\ line = 1
    /\ hotel_count = 0
    /\ ret = <<>>
    /\ origin = <<>>
    /\ texts = None
    /\ exc = "none"
    /\ errors = {}
    /\ cursor = 0
    /\ canvas = <<>>
    /\ out_written = FALSE
    /\ result = None

NoFormatterCall ==
    /\ creator = None
    /\ data_element = None
    /\ drawing_element = None

\* A caller passes a dict to add_info_on_booking_request_paper, or calls
\* booking_data_dict_to_texts itself with a dict.
Init ==
    /\ today \in Todays
    /\ booking_data \in PipelineDocuments
    /\ call \in {"add_info_on_booking_request_paper", "booking_data_dict_to_texts"}
    /\ pc = IF call = "add_info_on_booking_request_paper" THEN "validate" ELSE "resolve"
    /\ NotCalled
    /\ NoFormatterCall

\* the argument of the running booking_data_dict_to_texts
ResolverArgument ==
    IF call = "add_info_on_booking_request_paper" THEN booking_data_dict
    ELSE booking_data

\* line 319: booking_data_dict = validate_booking_data(booking_data_dict)
Validate ==
    /\ pc = "validate"
    /\ LET r == validate_booking_data(booking_data)
       IN  /\ errors' = Validated(booking_data).errors
           /\ IF r.ok
              THEN /\ booking_data_dict' = r.v
                   /\ pc' = "resolve"
                   /\ exc' = exc
              ELSE /\ booking_data_dict' = booking_data_dict
                   /\ pc' = "raised"
                   /\ exc' = r.exc
    /\ UNCHANGED <<formatter_call, today, call, booking_data, line, hotel_count,
                   ret, origin, texts, cursor, canvas, out_written, result>>

\* One statement of booking_data_dict_to_texts (lines 346-382).  An
\* exception leaves the function at once; its local ret is never returned.
Statement ==
    /\ pc = "resolve"
    /\ line <= Len(Statements(hotel_count))
    /\ LET stmt == Statements(hotel_count)[line]
           r == IF stmt.op = "range" THEN HotelCount(ResolverArgument)
                ELSE create_texts(ResolverArgument, stmt.keys, stmt.creator)
       IN  IF ~r.ok
           THEN /\ pc' = "raised"
                /\ exc' = r.exc
                /\ UNCHANGED <<line, hotel_count, ret, origin>>
           ELSE /\ pc' = pc
                /\ exc' = exc
                /\ line' = line + 1
                /\ IF stmt.op = "range"
                   THEN /\ hotel_count' = r.v
                        /\ UNCHANGED <<ret, origin>>
                   ELSE /\ hotel_count' = hotel_count
                        /\ ret' = Accumulate(ret, r.v)
                        /\ origin' = Accumulate(origin,
                               [n \in 1..Len(r.v) |->
                                   [line |-> line, keys |-> stmt.keys]])
    /\ UNCHANGED <<formatter_call, today, call, booking_data, booking_data_dict, texts, errors,
                   cursor, canvas, out_written, result>>

\* line 384: return ret; in add_info_on_booking_request_paper line 320
\* binds it to texts and line 321 calls edit_booking_request_paper.
Return ==
    /\ pc = "resolve"
    /\ line > Len(Statements(hotel_count))
    /\ texts' = List(ret)
    /\ pc' = IF call = "add_info_on_booking_request_paper" THEN "render"
             ELSE "returned"
    /\ UNCHANGED <<formatter_call, today, call, booking_data, booking_data_dict, line,
                   hotel_count, ret, origin, exc, errors, cursor, canvas,
                   out_written, result>>

\* add_text_on_page, lines 482-489: one round of the loop over texts
DrawText ==
    /\ pc = "render"
    /\ cursor < Len(texts.items)
    /\ LET text == texts.items[cursor + 1]
       IN  canvas' = IF ~is_drawable(text.position) THEN canvas
                     ELSE Append(canvas, text)
    /\ cursor' = cursor + 1
    /\ UNCHANGED <<formatter_call, today, call, booking_data, pc, booking_data_dict, line,
                   hotel_count, ret, origin, texts, exc, errors, out_written,
                   result>>

\* edit_booking_request_paper, lines 467-471: the page is written
WriteOut ==
    /\ pc = "render"
    /\ cursor = Len(texts.items)
    /\ out_written' = TRUE
    /\ pc' = "returned"
    /\ UNCHANGED <<formatter_call, today, call, booking_data, booking_data_dict, line,
                   hotel_count, ret, origin, texts, exc, errors, cursor, canvas,
                   result>>

\* edit_booking_request_paper: reading the paper (lines 457-461) or drawing
\* on it fails in PyPDF2 or reportlab; nothing is written.
RenderFails ==
    /\ pc = "render"
    /\ pc' = "raised"
    /\ exc' = "RenderError"
    /\ UNCHANGED <<formatter_call, today, call, booking_data, booking_data_dict, line,
                   hotel_count, ret, origin, texts, errors, cursor, canvas,
                   out_written, result>>

Next == Validate \/ Statement \/ Return \/ DrawText \/ WriteOut \/ RenderFails

Spec == Init /\ [][Next]_vars

(***************************************************************************)
(* A formatter called on its own, as create_texts calls it (line 452)      *)
(***************************************************************************)
YearSpan == 2
MaxParts == 4

\* "12-23-34...": parts two-digit groups joined by '-'
RECURSIVE PartsText(_)
PartsText(parts) ==
    LET group == <<DigitChars[parts + 1], DigitChars[parts + 2]>>
    IN  IF parts = 1 THEN group ELSE PartsText(parts - 1) \o <<"-">> \o group

PlanEntries == HeadPlan \o LoopPlan(3) \o TailPlan

\* the creators the plan binds
PlanCreators == {PlanEntries[n].creator : n \in 1..Len(PlanEntries)}

\* the nodes of BOOKING_DATA_POSITIONS the plan hands to a creator
PlanPositions ==
    {get_deep_element(BOOKING_DATA_POSITIONS, PlanEntries[n].keys).v :
        n \in 1..Len(PlanEntries)}

SelectionValues ==
    {Sym(name) : name \in {"otoko", "onna", "keitai", "jitaku", "kinmusaki",
                           "choushoku", "chouyuushoku", "shokuji_nashi",
                           "kinen", "kitsuen", "dochirademo", "sonota"}}

FormatterValues ==
    {Date(y, 5, 5) : y \in (EPOCH - YearSpan)..(EPOCH + YearSpan)}
    \cup {Date(2018, 10, 1), Date(2019, 1, 15)}
    \cup {Str(PartsText(parts)) : parts \in 1..MaxParts}
    \cup {Str(<<"1", "2", "-", "-", "3", "4">>), Str(<<>>)}
    \cup {Str(v) : v \in SelectionValues}
    \cup {IntV(56), None}

InitFormat ==
    /\ today \in Todays
    /\ call = "creator"
    /\ booking_data = None
    /\ pc = "format"
    /\ NotCalled
    /\ creator \in PlanCreators
    /\ data_element \in FormatterValues
    /\ drawing_element \in PlanPositions

\* line 452: creator(data_element, drawing_element)
Format ==
    /\ pc = "format"
    /\ LET r == Call(creator, data_element, drawing_element)
       IN  /\ result' = IF r.ok THEN List(r.v) ELSE result
           /\ exc' = IF r.ok THEN exc ELSE r.exc
           /\ pc' = IF r.ok THEN "returned" ELSE "raised"
    /\ UNCHANGED <<formatter_call, today, call, booking_data, booking_data_dict,
                   line, hotel_count, ret, origin, texts, errors, cursor, canvas,
                   out_written>>

NextFormat == Format

SpecFormat == InitFormat /\ [][NextFormat]_vars

(***************************************************************************)
(* validate_booking_data called on its own, and called again with the      *)
(* document it returned                                                    *)
(***************************************************************************)
MaxDrops == 2

\* test_pdf.py, lines 8-24
TestDocument ==
    Dict(<<
      KV("iraibi", Date(2018, 10, 1)),
      KV("riyou_daihyousha",
         Get(SampleDocument(0, "absent"), "riyou_daihyousha"))>>)

\* fields a document may lack
DropPaths ==
    { <<K("iraibi")>>,
      <<COURSE, K("pamphlet_mei_page")>>,
      <<COURSE, NINZUU, K("youji")>>,
      <<COURSE, NINZUU>>,
      <<COURSE, HOTEL, Ix(0), K("tabako")>>,
      <<COURSE, HOTEL, Ix(0), K("shokuji")>>,
      <<DAIHYOUSHA>>,
      <<DAIHYOUSHA, K("seibetsu")>>,
      <<SOUFUSAKI, SEIKYUUSHO, K("juusho")>> }

\* the elements of a set in some order
RECURSIVE SeqOf(_)
SeqOf(S) ==
    IF S = {} THEN <<>>
    ELSE LET x == CHOOSE x \in S : TRUE IN <<x>> \o SeqOf(S \ {x})

DropEdits == {[n \in 1..Len(q) |-> DelEdit(q[n])] :
                q \in {SeqOf(D) : D \in {D \in SUBSET DropPaths : Cardinality(D) <= MaxDrops}}}

\* values a document may carry that the sample does not
ValueDefects ==
    { <<>>,
      <<SetEdit(<<COURSE, K("pamphlet_mei_page")>>, None)>>,
      <<SetEdit(<<DAIHYOUSHA, K("furigana")>>, None)>>,
      <<SetEdit(<<DAIHYOUSHA, K("hokenshou"), K("kigou")>>, IntV(-1))>>,
      <<SetEdit(<<DAIHYOUSHA, K("kinmusaki_mei")>>, IntV(7))>>,
      <<SetEdit(<<DAIHYOUSHA, DENWA, Ix(0), K("bangou")>>,
                Str(PHONE_HOME \o <<"\n">>))>>,
      <<SetEdit(<<K("bikou")>>, Str(<<"memo">>))>>,
      <<SetEdit(<<SOUFUSAKI, K("bikou")>>, Str(<<"memo">>))>> }

\* The complete document with any value defect and at most one field
\* dropped, or with up to MaxDrops fields dropped.
ValidationSmokeChoices == {"absent", "mixed", "pipe"}

ValidationDocuments ==
    {TestDocument} \cup
    { ApplyEdits(CompleteDocument(hotels, smoke), edits) :
        hotels \in 0..MaxHotels, smoke \in ValidationSmokeChoices,
        edits \in DropEdits \cup
                  {defect \o drops : defect \in ValueDefects,
                                     drops \in {d \in DropEdits : Len(d) <= 1}} }

InitValidate ==
    /\ today \in Todays
    /\ call = "validate_booking_data"
    /\ booking_data \in ValidationDocuments
    /\ pc = "validate"
    /\ NotCalled
    /\ NoFormatterCall

\* validate_booking_data(booking_data), lines 334-339
ValidateCall ==
    /\ pc = "validate"
    /\ LET r == validate_booking_data(booking_data)
       IN  /\ errors' = Validated(booking_data).errors
           /\ result' = IF r.ok THEN r.v ELSE result
           /\ exc' = IF r.ok THEN exc ELSE r.exc
           /\ pc' = IF r.ok THEN "returned" ELSE "raised"
    /\ UNCHANGED <<formatter_call, today, call, booking_data, booking_data_dict,
                   line, hotel_count, ret, origin, texts, cursor, canvas,
                   out_written>>

\* the caller validates the document it was given back
ValidateAgain ==
    /\ pc = "returned"
    /\ booking_data' = result
    /\ LET r == validate_booking_data(result)
       IN  /\ errors' = Validated(result).errors
           /\ result' = IF r.ok THEN r.v ELSE None
           /\ exc' = IF r.ok THEN exc ELSE r.exc
           /\ pc' = IF r.ok THEN "returned again" ELSE "raised again"
    /\ UNCHANGED <<formatter_call, today, call, booking_data_dict, line,
                   hotel_count, ret, origin, texts, cursor, canvas, out_written>>

NextValidate == ValidateCall \/ ValidateAgain

SpecValidate == InitValidate /\ [][NextValidate]_vars

(***************************************************************************)
(* Properties of the resolution and of the rendering (Spec)                *)
(***************************************************************************)
\* booking_data_dict_to_texts raised: the call is over, no validation error
\* is recorded and the renderer was not the one that failed.
ResolutionRaised ==
    pc = "raised" /\ errors = {} /\ exc # "RenderError"

\* what the statement at `line` does with the resolver's argument
OutcomeAtLine ==
    LET stmt == Statements(hotel_count)[line]
    IN  IF stmt.op = "range" THEN HotelCount(ResolverArgument)
        ELSE LET d == get_deep_element(ResolverArgument, stmt.keys)
                 q == get_deep_element(BOOKING_DATA_POSITIONS, stmt.keys)
             IN  IF ~d.ok THEN d ELSE IF ~q.ok THEN q
                 ELSE Call(stmt.creator, d.v, q.v)

\* every plan entry finds its path in the document and in the registry and
\* its formatter returns
EveryEntrySucceeds ==
    \A n \in 1..Len(Statements(hotel_count)) :
        LET stmt == Statements(hotel_count)[n]
        IN  stmt.op = "texts" =>
              LET d == get_deep_element(ResolverArgument, stmt.keys)
                  q == get_deep_element(BOOKING_DATA_POSITIONS, stmt.keys)
              IN  d.ok /\ q.ok /\ Call(stmt.creator, d.v, q.v).ok

\* C1: resolution is all-or-nothing.  When a plan entry misses its path in
\* the document or in the registry, or its formatter raises, the call ends
\* with that entry's exception and the caller receives no placement list,
\* however many placements ret held; a list is received only when every
\* entry has succeeded, and it is the whole of ret.
C1_AllOrNothing ==
    /\ ResolutionRaised =>
         /\ texts = None
         /\ canvas = <<>> /\ ~out_written
         /\ ~OutcomeAtLine.ok
         /\ exc = OutcomeAtLine.exc
    /\ (texts # None /\ cursor = 0) =>
         /\ line = Len(Statements(hotel_count)) + 1
         /\ texts = List(ret)
         /\ EveryEntrySucceeds

\* C1 witness: an entry raised after earlier entries had put placements in ret.
C1_Witness ==
    ResolutionRaised /\ Len(ret) > 30 /\ texts = None

\* the renderer has been entered
RendererInvoked ==
    pc = "render" \/ cursor > 0 \/ canvas # <<>> \/ out_written
    \/ exc = "RenderError"

\* C2: in add_info_on_booking_request_paper validation is over before any
\* step of resolution or rendering is taken, and the renderer is entered
\* only after validation and resolution have both succeeded; when either
\* fails the renderer is never entered and no page is written.
C2_ValidateResolveRender ==
    call = "add_info_on_booking_request_paper" =>
      /\ pc = "validate" =>
           /\ line = 1 /\ ret = <<>> /\ texts = None
           /\ ~RendererInvoked
      /\ (pc = "resolve" \/ line > 1 \/ ret # <<>> \/ texts # None) =>
           /\ errors = {}
           /\ booking_data_dict # None
      /\ RendererInvoked =>
           /\ errors = {}
           /\ booking_data_dict # None
           /\ texts = List(ret)
           /\ line = Len(Statements(hotel_count)) + 1
      /\ (pc = "render" /\ cursor = 0) =>
           /\ Validated(booking_data).errors = {}
           /\ booking_data_dict = Validated(booking_data).document
           /\ Ok(texts.items) = booking_data_dict_to_texts(booking_data_dict)
      /\ (pc = "raised" /\ exc # "RenderError") =>
           /\ ~RendererInvoked
           /\ texts = None
      /\ (pc = "raised" /\ booking_data_dict = None) =>
           /\ errors # {} /\ exc = "RuntimeError" /\ line = 1 /\ ret = <<>>

\* C2 witness: the page was written.
C2_Witness ==
    call = "add_info_on_booking_request_paper" /\ out_written
    /\ Len(canvas) > 40

\* C2 witness of the failing side: validation failed and nothing else ran.
C2_WitnessRejected ==
    call = "add_info_on_booking_request_paper" /\ pc = "raised" /\ errors # {}

Reverse(q) == [n \in 1..Len(q) |-> q[Len(q) + 1 - n]]

\* the same document with the keys of every dict in the opposite order
RECURSIVE DeepReverse(_)
DeepReverse(x) ==
    CASE x.t = "dict" ->
           Dict(Reverse([n \in 1..Len(x.kv) |->
                            KV(x.kv[n].k, DeepReverse(x.kv[n].v))]))
      [] x.t = "list" ->
           List([n \in 1..Len(x.items) |-> DeepReverse(x.items[n])])
      [] OTHER -> x

\* the same document with its top-level keys rotated by one
RotateTop(x) ==
    IF x.kv = <<>> THEN x ELSE Dict(Append(Tail(x.kv), Head(x.kv)))

\* C3: the placements come in plan order whatever the order of the
\* document's keys: a placement made by an earlier plan entry precedes
\* every placement made by a later one, and documents that differ only in
\* the order of their keys yield the same placement list.
C3_PlanOrder ==
    /\ Len(origin) = Len(ret)
    /\ \A j1, j2 \in 1..Len(origin) :
           j1 < j2 => origin[j1].line <= origin[j2].line
    /\ \A j \in 1..Len(origin) :
           origin[j].keys = Statements(hotel_count)[origin[j].line].keys
    /\ (pc = "returned" /\ call = "booking_data_dict_to_texts") =>
           /\ booking_data_dict_to_texts(DeepReverse(booking_data)) = Ok(texts.items)
           /\ booking_data_dict_to_texts(RotateTop(booking_data)) = Ok(texts.items)

\* C3 witness: a list was returned for a document whose reordering is
\* another document.
C3_Witness ==
    /\ pc = "returned" /\ call = "booking_data_dict_to_texts"
    /\ Len(texts.items) > 40
    /\ DeepReverse(booking_data) # booking_data
    /\ \E j1, j2 \in 1..Len(origin) : origin[j1].line < origin[j2].line

\* target_keys goes through the hotel list
ThroughHotel(keys) ==
    Len(keys) >= 3 /\ keys[1] = COURSE /\ keys[2] = HOTEL /\ keys[3].s = "idx"

\* every position below a node of the registry
RECURSIVE LeafPositions(_)
LeafPositions(node) ==
    CASE node.t = "dict" ->
           UNION {LeafPositions(node.kv[n].v) : n \in 1..Len(node.kv)}
      [] node.t = "list" ->
           UNION {LeafPositions(node.items[n]) : n \in 1..Len(node.items)}
      [] OTHER -> {node}

RegistrySlots ==
    get_deep_element(BOOKING_DATA_POSITIONS, <<COURSE, HOTEL>>).v.items

\* the hotel list of the resolver's argument
HotelList == get_deep_element(ResolverArgument, <<COURSE, HOTEL>>)

RangeLine == Len(HeadPlan) + 1

\* C4: the hotel section follows the length of the document's list.  The
\* loop runs over exactly the n indices of the list; every placement of the
\* section comes from an index below n and takes its position from the
\* registry slot of that index; a returned list holds the six placements
\* of each index 0..n-1 and no drawn position of a slot from n on, though
\* the registry has three slots.
C4_ListLength ==
    /\ line > RangeLine =>
         /\ HotelList.ok /\ PyLen(HotelList.v).ok
         /\ hotel_count = PyLen(HotelList.v).v
    /\ \A j \in 1..Len(origin) :
         ThroughHotel(origin[j].keys) =>
           /\ line > RangeLine
           /\ origin[j].keys[3].i < hotel_count
           /\ origin[j].keys[3].i < Len(RegistrySlots)
           /\ ret[j].position \in
                LeafPositions(RegistrySlots[origin[j].keys[3].i + 1])
    /\ texts # None =>
         /\ hotel_count <= Len(RegistrySlots)
         /\ \A i \in 0..(hotel_count - 1) :
              Cardinality({j \in 1..Len(origin) :
                             ThroughHotel(origin[j].keys)
                             /\ origin[j].keys[3].i = i}) = 6
         /\ \A k \in (hotel_count + 1)..Len(RegistrySlots) :
              \A j \in 1..Len(texts.items) :
                 texts.items[j].position.t = "NoPosition"
                 \/ texts.items[j].position \notin LeafPositions(RegistrySlots[k])

\* C4 witness: a list was returned for a document with two hotels.
C4_Witness ==
    /\ texts # None /\ hotel_count = 2
    /\ Len(RegistrySlots) = 3
    /\ Len(texts.items) = 49

\* hotel i of the resolver's argument states どちらでも
SmokesEither(i) ==
    LET v == get_deep_element(ResolverArgument, <<COURSE, HOTEL, Ix(i), K("tabako")>>)
    IN  v.ok /\ v.v = Str(Sym("dochirademo"))

\* the placements of q whose position is not the sentinel
RECURSIVE Drawn(_)
Drawn(q) ==
    IF q = <<>> THEN <<>>
    ELSE IF Head(q).position.t = "NoPosition" THEN Drawn(Tail(q))
    ELSE <<Head(q)>> \o Drawn(Tail(q))

\* C5: a placement at the sentinel position NoPosition stays in the list
\* the resolver returns, one for each hotel that states どちらでも; its
\* position tells it apart (is_drawable() is false for it and true for every
\* other position); and the renderer draws, in order, exactly the
\* placements that are not at the sentinel.
C5_Sentinel ==
    /\ texts # None =>
         \A i \in 0..(hotel_count - 1) :
            SmokesEither(i) =>
              \E j \in 1..Len(texts.items) :
                 /\ origin[j].keys = <<COURSE, HOTEL, Ix(i), K("tabako")>>
                 /\ texts.items[j] = TextOnPage(Sym("maru"), NoPosition)
    /\ \A j \in 1..Len(ret) :
         is_drawable(ret[j].position) <=> ret[j].position.t # "NoPosition"
    /\ RendererInvoked =>
         canvas = Drawn(SubSeq(texts.items, 1, cursor))
    /\ out_written => canvas = Drawn(texts.items)

\* C5 witness: a page was written from a list that holds sentinel placements.
C5_Witness ==
    /\ out_written
    /\ \E j \in 1..Len(texts.items) : texts.items[j].position = NoPosition
    /\ Len(canvas) < Len(texts.items)
    /\ Len(canvas) > 40

(***************************************************************************)
(* Properties of the formatters                                            *)
(***************************************************************************)
\* C6: the request date with year Y is printed with era-year Y - EPOCH, and
\* a request date before the epoch is refused with an error: no placement
\* of the request date carries a negative era-year.
C6_EraYearOrError ==
    \A j \in 1..Len(ret) :
        origin[j].keys = <<K("iraibi")>> /\ ret[j].position.x = 62 =>
          LET booking_date == Get(ResolverArgument, "iraibi")
          IN  /\ booking_date.y >= EPOCH
              /\ ret[j].text = Digits(booking_date.y - EPOCH)
              /\ Head(ret[j].text) # "-"

\* the number of separators of s
SepCount(s, sep) == Cardinality({n \in 1..Len(s) : s[n] = sep})

\* the texts of placements joined by sep
RECURSIVE JoinTexts(_, _)
JoinTexts(placements, sep) ==
    IF Len(placements) = 1 THEN placements[1].text
    ELSE placements[1].text \o <<sep>> \o JoinTexts(Tail(placements), sep)

PhoneCallDone ==
    pc # "format" /\ creator.f = "create_phone_number_text"
    /\ data_element.t = "string"

\* C7: create_phone_number_text refuses a text of 2 or 4 parts (of any
\* number of '-' separated parts other than 3) with an AssertionError, and
\* for a text of 3 parts and a list of positions returns 3 placements: the
\* parts from left to right, part i at position i of the list.
C7_PhoneParts ==
    PhoneCallDone =>
      LET parts == SepCount(data_element.s, "-") + 1
      IN  /\ parts # 3 =>
               pc = "raised" /\ exc = "AssertionError" /\ result = None
          /\ (parts = 3 /\ drawing_element.t = "list") =>
               /\ pc = "returned"
               /\ Len(result.items) = 3
               /\ JoinTexts(result.items, "-") = data_element.s
               /\ \A i \in 1..3 :
                     /\ result.items[i].position = drawing_element.items[i]
                     /\ SepCount(result.items[i].text, "-") = 0

\* C7 witness: a text of four parts was refused.
C7_Witness ==
    /\ PhoneCallDone /\ SepCount(data_element.s, "-") = 3
    /\ drawing_element.t = "list"
    /\ pc = "raised"

\* C7 witness of the accepting side: three parts, one of them empty.
C7_WitnessAccepted ==
    /\ PhoneCallDone /\ data_element.s = <<"1", "2", "-", "-", "3", "4">>
    /\ pc = "returned"

\* the rule set BOOKING_DATA_SCHEMA gives the field at keys
RECURSIVE RulesAt(_, _)
RulesAt(rules, keys) ==
    IF keys = <<>> THEN rules
    ELSE IF Head(keys).s = "key"
    THEN RulesAt(RulesOf(rules.schema, Head(keys).k), Tail(keys))
    ELSE RulesAt(rules.schema, Tail(keys))

SchemaRulesAt(keys) ==
    RulesAt([type |-> "dict", schema |-> BOOKING_DATA_SCHEMA], keys)

Range(q) == {q[n] : n \in 1..Len(q)}

\* the plan entries that bind the creator to the registry node of the call
BoundEntries ==
    {n \in 1..Len(PlanEntries) :
        /\ PlanEntries[n].creator = creator
        /\ get_deep_element(BOOKING_DATA_POSITIONS, PlanEntries[n].keys).v
             = drawing_element}

\* C8: for every selection field of the plan, called with the field's node
\* of the registry, the selection creator returns for each value the schema
\* allows exactly one placement, the mark ○ at the position the node maps
\* the value to; for a value the node does not map it raises and returns
\* no placement.
C8_Selection ==
    (pc # "format" /\ creator.f = "selection") =>
      \A n \in BoundEntries :
         LET allowed == Range(SchemaRulesAt(PlanEntries[n].keys).allowed)
             mapped == data_element.t = "string" /\ Len(data_element.s) = 1
                       /\ HasKey(drawing_element, data_element.s[1])
         IN  /\ (data_element.t = "string" /\ data_element.s \in allowed) =>
                  /\ pc = "returned"
                  /\ mapped
                  /\ result = List(<<TextOnPage(Sym("maru"),
                                       Get(drawing_element, data_element.s[1]))>>)
             /\ ~mapped =>
                  pc = "raised" /\ exc = "RuntimeError" /\ result = None

\* C8 witness: an allowed value of a selection field was marked.
C8_Witness ==
    /\ pc = "returned" /\ creator.f = "selection" /\ BoundEntries # {}
    /\ data_element = Str(Sym("kitsuen"))
    /\ result.items[1].position.x = 551

\* C8 witness of the refusing side: a value the node does not map.
C8_WitnessRefused ==
    /\ pc = "raised" /\ creator.f = "selection" /\ BoundEntries # {}
    /\ data_element = Str(Sym("sonota"))

(***************************************************************************)
(* Properties of validate_booking_data                                     *)
(***************************************************************************)
\* Every field of value that rules (and the rule sets below it) pick out
\* with the predicate wanted is set in value: its key is there and, when
\* valued is asked for, its value is not None.
RECURSIVE FieldsSet(_, _, _, _)
FieldsSet(value, rules, wanted, valued) ==
    IF ~Has(rules, "schema") THEN TRUE
    ELSE IF value.t = "dict" /\ rules.type = "dict"
    THEN \A n \in 1..Len(rules.schema) :
            LET f == rules.schema[n]
            IN  /\ Has(f.r, wanted) =>
                     /\ HasKey(value, f.k)
                     /\ (valued => Get(value, f.k).t # "none")
                /\ HasKey(value, f.k) =>
                     FieldsSet(Get(value, f.k), f.r, wanted, valued)
    ELSE IF value.t = "list" /\ rules.type = "list"
    THEN \A n \in 1..Len(value.items) :
            FieldsSet(value.items[n], rules.schema, wanted, valued)
    ELSE TRUE

DocumentRules == [type |-> "dict", schema |-> BOOKING_DATA_SCHEMA]

\* the document has a value for every field the schema gives a default
CarriesDefaults(document) ==
    FieldsSet(document, DocumentRules, "default", TRUE)

C9_WitnessAgain ==
    /\ pc = "returned again"
    /\ HasKey(booking_data, "iraibi") /\ Get(booking_data, "iraibi") = today
    /\ result = booking_data

\* the paths of the fields the schema gives a default, for n hotels
DefaultedPaths(n) ==
    { <<K("iraibi")>>,
      <<COURSE, K("pamphlet_mei_page")>>,
      <<COURSE, NINZUU, K("otona")>>,
      <<COURSE, NINZUU, K("kodomo")>>,
      <<COURSE, NINZUU, K("youji")>> }
    \cup {<<COURSE, HOTEL, Ix(i), K("tabako")>> : i \in 0..(n - 1)}

C10_WitnessRefused ==
    /\ pc = "raised"
    /\ ~FieldsSet(booking_data, DocumentRules, "required", FALSE)
    /\ \E e \in errors : e.rule = "required"

(***************************************************************************)
(* The error report of validate_booking_data                               *)
(***************************************************************************)
Absent == [t |-> "absent"]
Undeclared == [type |-> "undeclared"]
CheckedField(path, value, rules) ==
    [path |-> path, value |-> value, rules |-> rules]

\* The fields of the whole tree: every field the document has and every
\* field the schema declares, below the containers whose type is the one
\* the schema asks.
RECURSIVE FieldsBelow(_, _, _)
FieldsBelow(value, rules, path) ==
    IF ~Has(rules, "schema") THEN {}
    ELSE IF value.t = "dict" /\ rules.type = "dict"
    THEN LET names == {value.kv[n].k : n \in 1..Len(value.kv)}
                      \cup {rules.schema[n].k : n \in 1..Len(rules.schema)}
             Below(name) ==
                 LET v == IF HasKey(value, name) THEN Get(value, name) ELSE Absent
                     r == IF Declares(rules.schema, name)
                          THEN RulesOf(rules.schema, name) ELSE Undeclared
                     here == Append(path, K(name))
                 IN  {CheckedField(here, v, r)} \cup FieldsBelow(v, r, here)
         IN  UNION {Below(name) : name \in names}
    ELSE IF value.t = "list" /\ rules.type = "list"
    THEN UNION {LET here == Append(path, Ix(n - 1))
                IN  {CheckedField(here, value.items[n], rules.schema)}
                    \cup FieldsBelow(value.items[n], rules.schema, here)
                  : n \in 1..Len(value.items)}
    ELSE {}

\* the field breaks a rule of its own
Violates(f) ==
    LET unset == f.value.t \in {"absent", "none"}
    IN  \/ f.rules.type = "undeclared"
        \/ /\ f.rules.type # "undeclared"
           /\ \/ f.value.t = "absent" /\ Has(f.rules, "required") /\ f.rules.required
              \/ f.value.t = "none" /\ ~Has(f.rules, "default")
              \/ ~unset /\ f.value.t # f.rules.type
              \/ /\ ~unset /\ f.value.t = f.rules.type
                 /\ \/ /\ Has(f.rules, "allowed")
                       /\ f.value.s \notin Range(f.rules.allowed)
                    \/ Has(f.rules, "min") /\ f.value.n < f.rules.min
                    \/ /\ Has(f.rules, "minlength")
                       /\ PyLen(f.value).v < f.rules.minlength
                    \/ /\ Has(f.rules, "maxlength")
                       /\ PyLen(f.value).v > f.rules.maxlength
                    \/ Has(f.rules, "regex") /\ ~Matches(f.rules.regex, f.value.s)

ViolatingPaths(document) ==
    {f.path : f \in {g \in FieldsBelow(document, DocumentRules, <<>>) : Violates(g)}}

\* the required fields of DropPaths the document lacks below a present parent
MissingRequired(document) ==
    {p \in DropPaths :
        /\ Has(SchemaRulesAt(p), "required")
        /\ get_deep_element(document, SubSeq(p, 1, Len(p) - 1)).ok
        /\ ~get_deep_element(document, p).ok}

\* C11: validation does not stop at the first error: when
\* validate_booking_data raises, validator.errors has an entry for every
\* violating field of the whole tree and for no other, and in particular a
\* 'required' entry for each of two (or more) missing required fields.
C11_NoShortCircuit ==
    /\ pc = "raised" =>
         /\ {e.path : e \in errors} = ViolatingPaths(booking_data)
         /\ \A p \in MissingRequired(booking_data) : Error(p, "required") \in errors
    /\ pc = "returned" => ViolatingPaths(booking_data) = {}

\* C11 witness: a document lacking two required fields in different
\* branches was refused with both in the report.
C11_Witness ==
    /\ pc = "raised"
    /\ {<<DAIHYOUSHA, K("seibetsu")>>, <<SOUFUSAKI, SEIKYUUSHO, K("juusho")>>}
         \subseteq MissingRequired(booking_data)
    /\ Cardinality(errors) >= 2
    /\ {e.path : e \in errors} = MissingRequired(booking_data)

(***************************************************************************)
(* Keys the schema does not declare                                        *)
(***************************************************************************)
\* the top-level keys of the document that BOOKING_DATA_SCHEMA does not declare
ExtraKeys(document) ==
    {k \in Keys(document) : ~Declares(BOOKING_DATA_SCHEMA, k)}

\* the document without them
WithoutExtraKeys(document) ==
    Dict(SelectSeq(document.kv,
                   LAMBDA pair : Declares(BOOKING_DATA_SCHEMA, pair.k)))

\* validate_booking_data was called with a document that satisfies the
\* schema but for an extra top-level key
ExtraKeyCallDone ==
    /\ pc \in {"returned", "raised"}
    /\ ExtraKeys(booking_data) # {}
    /\ ViolatingPaths(WithoutExtraKeys(booking_data)) = {}

\* C12 as stated: a document that satisfies the schema and carries an
\* extra top-level key is not rejected and the key is not stripped:
\* validate_booking_data returns a document that still has the key.
C12_ExtraKeyIgnored ==
    ExtraKeyCallDone =>
      /\ pc = "returned"
      /\ \A k \in ExtraKeys(booking_data) :
            HasKey(result, k) /\ Get(result, k) = Get(booking_data, k)

\* C12 amended: a document that satisfies the schema and carries an extra
\* top-level key is rejected: validate_booking_data raises RuntimeError,
\* validator.errors has an 'unknown field' entry for that key and nothing
\* else, and no document is returned.
C12_ExtraKeyRejected ==
    ExtraKeyCallDone =>
      /\ pc = "raised" /\ exc = "RuntimeError"
      /\ errors = {Error(<<K(k)>>, "unknown") : k \in ExtraKeys(booking_data)}
      /\ result = None

\* C12 witness: the complete document with the extra key was refused.
C12_Witness ==
    /\ ExtraKeyCallDone
    /\ ExtraKeys(booking_data) = {"bikou"}
    /\ pc = "raised"
    /\ errors = {Error(<<K("bikou")>>, "unknown")}

(***************************************************************************)
(* Schema, plan and registry together                                      *)
(***************************************************************************)
\* add_info_on_booking_request_paper has the document validate_booking_data
\* returned
DocumentValidated ==
    call = "add_info_on_booking_request_paper" /\ booking_data_dict # None

SelectionEntries ==
    {n \in 1..Len(PlanEntries) : PlanEntries[n].creator.f = "selection"}

\* the telephone numbers of the validated document
PhoneNumbers ==
    LET phones == get_deep_element(booking_data_dict, <<DAIHYOUSHA, DENWA>>).v.items
    IN  {Get(phones[n], "bangou").s : n \in 1..Len(phones)}

\* C13: schema, plan and registry agree.  Resolving a document that
\* validate_booking_data returned never raises, and returns 37 + 6 * n
\* placements for a hotel list of length n, 1 <= n <= 3; every selection
\* field's allowed values are the creator's selectable items and the keys
\* of its registry node; a validated telephone number has exactly three
\* parts.
C13_Consistent ==
    /\ \A n \in SelectionEntries :
          LET entry == PlanEntries[n]
              allowed == Range(SchemaRulesAt(entry.keys).allowed)
          IN  /\ allowed = Range(entry.creator.items)
              /\ allowed = {Sym(name) : name \in
                              Keys(get_deep_element(BOOKING_DATA_POSITIONS,
                                                    entry.keys).v)}
    /\ DocumentValidated =>
         LET n == PyLen(get_deep_element(booking_data_dict, <<COURSE, HOTEL>>).v).v
         IN  /\ ~ResolutionRaised
             /\ n \in 1..3
             /\ \A number \in PhoneNumbers : SepCount(number, "-") = 2
             /\ texts # None => Len(texts.items) = 37 + 6 * n

\* C13 witness: a validated document with three hotels, defaults set by
\* the validation, resolved to 55 placements.
C13_Witness ==
    /\ DocumentValidated /\ texts # None
    /\ ~HasKey(booking_data, "iraibi")
    /\ PyLen(get_deep_element(booking_data_dict, <<COURSE, HOTEL>>).v).v = 3
    /\ Len(texts.items) = 55

\* C13 witness: a telephone number ending in a newline passed the regex
\* and was resolved in three parts.
C13_WitnessNewline ==
    /\ DocumentValidated /\ texts # None
    /\ \E number \in PhoneNumbers : number[Len(number)] = "\n"

\* The stepwise run agrees with the function computed in one piece.
StepsAgree ==
    /\ (pc = "returned" /\ call = "booking_data_dict_to_texts") =>
           Ok(texts.items) = booking_data_dict_to_texts(ResolverArgument)
    /\ (pc = "raised" /\ texts = None /\ errors = {}) =>
           Raise(exc) = booking_data_dict_to_texts(ResolverArgument)
====
